---- MODULE Spec2Model ----
(***************************************************************************)
(* Model of the Inventory Store Agent (src/src/services/data.rs,           *)
(* DataAgent): the in-memory collection of inventories and items, its      *)
(* snapshot in localStorage, the tracked AuthState and the responses each  *)
(* request handler emits.                                                  *)
(*                                                                         *)
(* An Arc<RwLock<Inventory>> is modelled by a handle [uuid]: the object's  *)
(* uuid field, which no handler assigns and which Uuid::new_v4() makes     *)
(* different for every object an agent allocates.  A handle is live when   *)
(* its object is in the collection; the handle of a removed object stays   *)
(* usable as the target of a request.  Item handles also carry the item's  *)
(* inventory_uuid, which no handler assigns either.  Handles are held by   *)
(* consumers bridged to the agent and do not outlive the agent instance.   *)
(*                                                                         *)
(* The Session Agent (src/src/services/auth.rs, AuthAgent) is modelled     *)
(* with its own variables and its own specification SpecAuth: its          *)
(* subscribers, the network calls it started, the consumers' copies of the *)
(* AuthState values that own those calls, and the values each handler      *)
(* sends.  SpecTrack runs the two agents together: the DataAgent's bridge   *)
(* to the Session Agent and the AuthState values delivered through it.     *)
(***************************************************************************)
EXTENDS Integers, Sequences, FiniteSets, TLC

\* ---- bounds ----
MaxIds == 2       \* number of uuids Uuid::new_v4() hands out
MaxCalls == 2     \* number of network calls the Session Agent starts

\* ---- input domains ----
Names == {"a"}
DebugName == "debug inv"
UserIds == {101}
ItemArgs == { [name |-> "a", ean |-> <<>>], [name |-> "b", ean |-> <<"123">>] }
HandlerIds ==
    { [raw |-> 1, respondable |-> TRUE],
      [raw |-> 2, respondable |-> FALSE] }
UpdateInvArgs ==
    { [name |-> "b", owner |-> 102, admins |-> <<101>>,
       writables |-> <<102>>, readables |-> <<101, 102>>] }

AuthStates ==
    { [kind |-> k] : k \in {"Initial", "Probing", "LoggingIn", "LoggingOut", "Error"} }
    \cup { [kind |-> "LoggedIn", user_info |-> [uuid |-> u]] : u \in UserIds }

\* handler ids at the Session Agent: the bridge the DataAgent opens in create
\* and the bridge of a view
DataBridge == [raw |-> 1, respondable |-> TRUE]
ViewBridge == [raw |-> 2, respondable |-> TRUE]
AuthHandlerIds == {DataBridge, ViewBridge}

AuthRequests == {"GetAuthStatus", "Login", "Signup", "Logout"}

\* what a FetchResponse body deserializes to: Ok(payload), or Err when the
\* backend rejected the call or could not be reached
Responses ==
    { [ok |-> TRUE, user_info |-> [uuid |-> u]] : u \in UserIds }
    \cup { [ok |-> FALSE, cause |-> c] : c \in {"rejected", "unreachable"} }

VARIABLES
    alive,          \* a DataAgent instance exists
    faulted,        \* a handler panicked: the wasm instance is dead
    inventories,    \* DataAgent.inventories
    store,          \* localStorage[SIMPLE_STORE_KEY]
    auth_state,     \* DataAgent.auth_state
    subscribers,    \* DataAgent.subscribers
    bridges,        \* handler ids connected to the agent
    nextId,         \* next uuid Uuid::new_v4() returns
    heapInv,        \* inventory objects a consumer may still hold
    heapItem,       \* item objects a consumer may still hold
    out,            \* link.respond calls of the last handler, in order
    last,           \* the last step: handler and arguments
    created,        \* history: CreateInventory results not deleted/updated since
    deletedItems    \* history: items for which DeleteItem replied DeletedItem

vars == <<alive, faulted, inventories, store, auth_state, subscribers,
          bridges, nextId, heapInv, heapItem, out, last, created,
          deletedItems>>

\* the Session Agent (src/src/services/auth.rs, AuthAgent) and its consumers
VARIABLES
    aBridges,       \* handler ids connected to the AuthAgent; it exists while there is one
    aSubs,          \* AuthAgent.subscribers
    calls,          \* the network calls started so far: [op, state]
    held,           \* per consumer: the calls whose AuthState value it holds
    aOut,           \* link.respond calls of the last AuthAgent handler, in order
    aLast,          \* the last AuthAgent step: handler and arguments
    lastB,          \* history: kind of the value this agent instance broadcast last
    prevB           \* history: kind of the value it broadcast before that one

avars == <<aBridges, aSubs, calls, held, aOut, aLast, lastB, prevB>>

\* ---- the durable store -------------------------------------------------
NoSnapshot == <<"absent">>

SerItem(it) == <<it.uuid, it.inventory_uuid, it.name, it.ean>>

SerInv(inv) ==
    <<inv.uuid, inv.name, inv.owner, inv.admins, inv.writables, inv.readables,
      [k \in 1..Len(inv.items) |-> SerItem(inv.items[k])]>>

Serialize(invs) == <<"json", [k \in 1..Len(invs) |-> SerInv(invs[k])]>>

DeItem(t) == [uuid |-> t[1], inventory_uuid |-> t[2], name |-> t[3], ean |-> t[4]]

DeInv(t) ==
    [uuid |-> t[1], name |-> t[2], owner |-> t[3], admins |-> t[4],
     writables |-> t[5], readables |-> t[6],
     items |-> [k \in 1..Len(t[7]) |-> DeItem(t[7][k])]]

Deserialize(blob) == [k \in 1..Len(blob[2]) |-> DeInv(blob[2][k])]

LoadEmpty(st) == <<>>

\* DataAgent::create: restore the snapshot, or vec![] when there is none
Load(st) == IF st[1] = "json" THEN Deserialize(st) ELSE <<>>

PersistNothing(invs, st) == st

\* DataAgent::persist_data: the whole collection replaces the snapshot
PersistData(invs, st) == Serialize(invs)

\* ---- constructors of sfi_core ------------------------------------------
InventoryNew(uuid, name, owner) ==
    [uuid |-> uuid, name |-> name, owner |-> owner, admins |-> <<>>,
     writables |-> <<>>, readables |-> <<>>, items |-> <<>>]

ItemNew(uuid, inventory_uuid, name, ean) ==
    [uuid |-> uuid, inventory_uuid |-> inventory_uuid, name |-> name, ean |-> ean]

\* ---- handles -----------------------------------------------------------
InvHandle(inv) == [uuid |-> inv.uuid]

ItemHandle(it) == [uuid |-> it.uuid, inventory_uuid |-> it.inventory_uuid]

HandlesOf(invs) == [k \in 1..Len(invs) |-> InvHandle(invs[k])]

AllInvHandles(invs) == { InvHandle(invs[k]) : k \in 1..Len(invs) }

AllItemHandles(invs) ==
    UNION { { ItemHandle(invs[k].items[j]) : j \in 1..Len(invs[k].items) }
            : k \in 1..Len(invs) }

\* ---- sequence helpers --------------------------------------------------
\* Iterator::position / Iterator::find on the uuid field: first match, 0 if none
Position(seq, uuid) ==
    IF \E k \in 1..Len(seq) : seq[k].uuid = uuid
    THEN CHOOSE k \in 1..Len(seq) :
            /\ seq[k].uuid = uuid
            /\ \A j \in 1..(k - 1) : seq[j].uuid # uuid
    ELSE 0

PushTwice(seq, x) == Append(Append(seq, x), x)

PushFront(seq, x) == <<x>> \o seq

\* Vec::push
Push(seq, x) == Append(seq, x)

RemoveLast(seq, k) == SubSeq(seq, 1, Len(seq) - 1)

\* Vec::remove
Remove(seq, k) == SubSeq(seq, 1, k - 1) \o SubSeq(seq, k + 1, Len(seq))

\* the orders in which HashSet::iter can yield the subscribers
Orders(S) ==
    { s \in [1..Cardinality(S) -> S] : \A i, j \in 1..Cardinality(S) : s[i] = s[j] => i = j }

\* ---- responses ---------------------------------------------------------
Msg(type, val) == [type |-> type, val |-> val]

\* link.respond(id, msg); persisted records whether the snapshot equals the
\* collection at the moment of the call
Respond(o, id, msg, invs, st) ==
    Append(o, [to |-> id, msg |-> msg, persisted |-> (st = Serialize(invs))])

RECURSIVE BroadcastTo(_, _, _, _, _)
\* for sub in self.subscribers.iter() { self.link.respond(*sub, ...) }
BroadcastTo(o, order, msg, invs, st) ==
    IF order = <<>> THEN o
    ELSE BroadcastTo(Respond(o, Head(order), msg, invs, st), Tail(order), msg, invs, st)

\* if let AuthState::LoggedIn(user_info) = self.auth_state.as_ref()
IsLoggedIn(a) == a.kind = "LoggedIn"

\* ---- initial state -----------------------------------------------------
Init ==
    /\ alive = FALSE
    /\ faulted = FALSE
    /\ inventories = <<>>
    /\ store = NoSnapshot
    /\ auth_state = [kind |-> "Initial"]
    /\ subscribers = {}
    /\ bridges = {}
    /\ nextId = 1
    /\ heapInv = {}
    /\ heapItem = {}
    /\ out = <<>>
    /\ last = [op |-> "init"]
    /\ created = {}
    /\ deletedItems = {}
    /\ aBridges = {}
    /\ aSubs = {}
    /\ calls = <<>>
    /\ held = [id \in AuthHandlerIds |-> {}]
    /\ aOut = <<>>
    /\ aLast = [op |-> "init"]
    /\ lastB = "none"
    /\ prevB = "none"

Running == alive /\ ~faulted

\* ---- agent life cycle --------------------------------------------------
\* DataAgent::create, run when the first bridge is opened
Create ==
    /\ ~alive /\ ~faulted
    /\ alive' = TRUE
    /\ inventories' = Load(store)
    /\ auth_state' = [kind |-> "Initial"]
    /\ subscribers' = {}
    /\ heapInv' = AllInvHandles(inventories')
    /\ heapItem' = AllItemHandles(inventories')
    /\ out' = <<>>
    /\ UNCHANGED avars
    /\ last' = [op |-> "create"]
    /\ UNCHANGED <<faulted, store, bridges, nextId, created, deletedItems>>

\* DataAgent::connected
Connected(id) ==
    /\ Running
    /\ id \notin bridges
    /\ bridges' = bridges \cup {id}
    /\ subscribers' = IF id.respondable THEN subscribers \cup {id} ELSE subscribers
    /\ out' = <<>>
    /\ UNCHANGED avars
    /\ last' = [op |-> "connected", id |-> id]
    /\ UNCHANGED <<alive, faulted, inventories, store, auth_state, nextId,
                   heapInv, heapItem, created, deletedItems>>

\* DataAgent::disconnected; the agent is destroyed with its last bridge
Disconnected(id) ==
    /\ Running
    /\ id \in bridges
    /\ bridges' = bridges \ {id}
    /\ subscribers' = subscribers \ {id}
    /\ alive' = (bridges' # {})
    /\ auth_state' = IF alive' THEN auth_state ELSE [kind |-> "Initial"]
    /\ heapInv' = IF alive' THEN heapInv ELSE {}
    /\ heapItem' = IF alive' THEN heapItem ELSE {}
    /\ out' = <<>>
    /\ UNCHANGED avars
    /\ last' = [op |-> "disconnected", id |-> id]
    /\ UNCHANGED <<faulted, inventories, store, nextId, created, deletedItems>>

\* the page is reloaded: every object of the old page is gone, the snapshot stays
PageReload ==
    /\ alive
    /\ alive' = FALSE
    /\ faulted' = FALSE
    /\ bridges' = {}
    /\ subscribers' = {}
    /\ heapInv' = {}
    /\ heapItem' = {}
    /\ auth_state' = [kind |-> "Initial"]
    /\ out' = <<>>
    /\ UNCHANGED avars
    /\ last' = [op |-> "reload"]
    /\ UNCHANGED <<inventories, store, nextId, created,
                   deletedItems>>

\* DataAgent::update(Msg::NewAuthState)
Update(a) ==
    /\ Running
    /\ auth_state' = a
    /\ out' = <<>>
    /\ UNCHANGED avars
    /\ last' = [op |-> "update", auth |-> a]
    /\ UNCHANGED <<alive, faulted, inventories, store, subscribers, bridges, nextId,
                   heapInv, heapItem, created, deletedItems>>

find_first(invs, inv_uuid) == IF Len(invs) > 0 THEN 1 ELSE 0

\* DataAgent::find_inv
find_inv(invs, inv_uuid) == Position(invs, inv_uuid)

\* ---- request handlers: DataAgent::handle_input ------------------------
\* a request is handled for a bridge that is connected
CanHandle(id) == Running /\ id \in bridges

InventoriesMsgStale(invs) ==
    Msg("Inventories", HandlesOf(SubSeq(invs, 1, Len(invs) - 1)))

\* DataAgentResponse::Inventories(self.inventories.to_vec().clone())
InventoriesMsg(invs) == Msg("Inventories", HandlesOf(invs))

\* DataAgentRequest::GetInventories
GetInventories(id) ==
    /\ CanHandle(id)
    /\ \E order \in Orders(subscribers) :
         out' = BroadcastTo(<<>>, order, InventoriesMsg(inventories), inventories, store)
    /\ UNCHANGED avars
    /\ last' = [op |-> "GetInventories", id |-> id]
    /\ UNCHANGED <<alive, faulted, inventories, store, auth_state, subscribers,
                   bridges, nextId, heapInv, heapItem, created, deletedItems>>

\* push the new inventory, persist, reply its uuid, broadcast the list
AddInventory(id, inv, nid) ==
    LET invs == Push(inventories, inv)
        st == PersistData(invs, store)
        o1 == Respond(<<>>, id, Msg("NewInventoryUuid", inv.uuid), invs, st)
    IN /\ inv.uuid <= MaxIds
       /\ inventories' = invs
       /\ store' = st
       /\ \E order \in Orders(subscribers) :
            out' = BroadcastTo(o1, order, InventoriesMsg(invs), invs, st)
       /\ heapInv' = heapInv \cup {InvHandle(inv)}
       /\ nextId' = nid

\* DataAgentRequest::MakeDebugInventory
MakeDebugInventory(id) ==
    /\ CanHandle(id)
    /\ UNCHANGED avars
    /\ last' = [op |-> "MakeDebugInventory", id |-> id]
    /\ IF IsLoggedIn(auth_state)
       THEN AddInventory(id, InventoryNew(nextId, DebugName, auth_state.user_info.uuid),
                         nextId + 1)
       ELSE AddInventory(id, InventoryNew(nextId + 1, DebugName, nextId), nextId + 2)
    /\ UNCHANGED <<alive, faulted, auth_state, subscribers, bridges, heapItem,
                   created, deletedItems>>

CreateInventoryUnchecked(id, name) ==
    /\ CanHandle(id)
    /\ UNCHANGED avars
    /\ last' = [op |-> "CreateInventory", id |-> id, name |-> name]
    /\ IF IsLoggedIn(auth_state)
       THEN /\ AddInventory(id, InventoryNew(nextId, name, auth_state.user_info.uuid),
                            nextId + 1)
            /\ created' = created \cup
                  {[uuid |-> nextId, name |-> name, owner |-> auth_state.user_info.uuid]}
       ELSE /\ AddInventory(id, InventoryNew(nextId + 1, name, nextId), nextId + 2)
            /\ UNCHANGED created
    /\ UNCHANGED <<alive, faulted, auth_state, subscribers, bridges, heapItem,
                   deletedItems>>

\* DataAgentRequest::CreateInventory(name)
CreateInventory(id, name) ==
    /\ CanHandle(id)
    /\ UNCHANGED avars
    /\ last' = [op |-> "CreateInventory", id |-> id, name |-> name]
    /\ IF IsLoggedIn(auth_state)
       THEN /\ AddInventory(id, InventoryNew(nextId, name, auth_state.user_info.uuid),
                            nextId + 1)
            /\ created' = created \cup
                  {[uuid |-> nextId, name |-> name, owner |-> auth_state.user_info.uuid]}
       ELSE /\ out' = <<>>
            /\ UNCHANGED <<inventories, store, heapInv, created, nextId>>
    /\ UNCHANGED <<alive, faulted, auth_state, subscribers, bridges, heapItem,
                   deletedItems>>

DeleteAllDataKeepsSnapshot(id) ==
    /\ CanHandle(id)
    /\ LET invs == <<>>
           st == store
       IN /\ inventories' = invs
          /\ store' = st
          /\ \E order \in Orders(subscribers) :
               out' = BroadcastTo(<<>>, order, InventoriesMsg(invs), invs, st)
    /\ created' = {}
    /\ UNCHANGED avars
    /\ last' = [op |-> "DeleteAllData", id |-> id]
    /\ UNCHANGED <<alive, faulted, auth_state, subscribers, bridges, nextId,
                   heapInv, heapItem, deletedItems>>

\* DataAgentRequest::DeleteAllData
DeleteAllData(id) ==
    /\ CanHandle(id)
    /\ LET invs == <<>>
           st == PersistData(invs, store)
       IN /\ inventories' = invs
          /\ store' = st
          /\ \E order \in Orders(subscribers) :
               out' = BroadcastTo(<<>>, order, InventoriesMsg(invs), invs, st)
    /\ created' = {}
    /\ UNCHANGED avars
    /\ last' = [op |-> "DeleteAllData", id |-> id]
    /\ UNCHANGED <<alive, faulted, auth_state, subscribers, bridges, nextId,
                   heapInv, heapItem, deletedItems>>

\* DataAgentRequest::GetInventory(inv_uuid)
GetInventory(id, inv_uuid) ==
    /\ CanHandle(id)
    /\ LET k == find_inv(inventories, inv_uuid)
           res == IF k # 0 THEN Msg("Inventory", InvHandle(inventories[k]))
                  ELSE Msg("InvalidInventoryUuid", 0)
       IN out' = Respond(<<>>, id, res, inventories, store)
    /\ UNCHANGED avars
    /\ last' = [op |-> "GetInventory", id |-> id, inv_uuid |-> inv_uuid]
    /\ UNCHANGED <<alive, faulted, inventories, store, auth_state, subscribers,
                   bridges, nextId, heapInv, heapItem, created, deletedItems>>

FaultAfterClear ==
    /\ faulted' = TRUE
    /\ out' = <<>>
    /\ inventories' = <<>>
    /\ UNCHANGED <<alive, store, auth_state, subscribers, bridges,
                   nextId, heapInv, heapItem, created, deletedItems>>

\* a handler panics (Option::expect on None): nothing was assigned before
\* the panic and nothing is emitted
Fault ==
    /\ faulted' = TRUE
    /\ out' = <<>>
    /\ UNCHANGED <<alive, inventories, store, auth_state, subscribers, bridges,
                   nextId, heapInv, heapItem, created, deletedItems>>

LiveInvNever(h) == FALSE

\* the inventory object behind a handle is the one in the collection
LiveInv(h) == find_inv(inventories, h.uuid) # 0

\* the item object behind a handle is the one in its inventory's sequence
LiveItem(h) ==
    /\ find_inv(inventories, h.inventory_uuid) # 0
    /\ Position(inventories[find_inv(inventories, h.inventory_uuid)].items, h.uuid) # 0

CreateItemOwnParent(id, inventory_uuid, name, ean) ==
    /\ CanHandle(id)
    /\ UNCHANGED avars
    /\ last' = [op |-> "CreateItem", id |-> id, inventory_uuid |-> inventory_uuid,
                name |-> name, ean |-> ean]
    /\ LET k == find_inv(inventories, inventory_uuid)
       IN IF k = 0
          THEN Fault
          ELSE /\ nextId <= MaxIds
               /\ LET item == ItemNew(nextId, nextId, name, ean)
                      invs == [inventories EXCEPT ![k].items = Push(@, item)]
                      st == PersistData(invs, store)
                  IN /\ inventories' = invs
                     /\ store' = st
                     /\ out' = Respond(<<>>, id, Msg("NewItemUuid", item.uuid), invs, st)
                     /\ heapItem' = heapItem \cup {ItemHandle(item)}
               /\ nextId' = nextId + 1
               /\ UNCHANGED <<alive, faulted, auth_state, subscribers, bridges,
                              heapInv, created, deletedItems>>

\* DataAgentRequest::CreateItem(inventory_uuid, name, ean)
CreateItem(id, inventory_uuid, name, ean) ==
    /\ CanHandle(id)
    /\ UNCHANGED avars
    /\ last' = [op |-> "CreateItem", id |-> id, inventory_uuid |-> inventory_uuid,
                name |-> name, ean |-> ean]
    /\ LET k == find_inv(inventories, inventory_uuid)
       IN IF k = 0
          THEN Fault
          ELSE /\ nextId <= MaxIds
               /\ LET item == ItemNew(nextId, inventory_uuid, name, ean)
                      invs == [inventories EXCEPT ![k].items = Push(@, item)]
                      st == PersistData(invs, store)
                  IN /\ inventories' = invs
                     /\ store' = st
                     /\ out' = Respond(<<>>, id, Msg("NewItemUuid", item.uuid), invs, st)
                     /\ heapItem' = heapItem \cup {ItemHandle(item)}
               /\ nextId' = nextId + 1
               /\ UNCHANGED <<alive, faulted, auth_state, subscribers, bridges,
                              heapInv, created, deletedItems>>

\* DataAgentRequest::UpdateInventory { target, name, owner, admins, writables, readables }
\* target.write() is Ok: a lock is poisoned only by a panic, which ends the instance;
\* a target that is not in the collection is written without effect on the collection
UpdateInventory(id, target, a) ==
    /\ CanHandle(id)
    /\ LET k == find_inv(inventories, target.uuid)
           invs == IF LiveInv(target)
                   THEN [inventories EXCEPT ![k].name = a.name,
                                            ![k].owner = a.owner,
                                            ![k].admins = a.admins,
                                            ![k].writables = a.writables,
                                            ![k].readables = a.readables]
                   ELSE inventories
           st == PersistData(invs, store)
       IN /\ inventories' = invs
          /\ store' = st
          /\ out' = Respond(<<>>, id, Msg("UpdatedInventory", target), invs, st)
    /\ created' = { c \in created : c.uuid # target.uuid }
    /\ UNCHANGED avars
    /\ last' = [op |-> "UpdateInventory", id |-> id, target |-> target, args |-> a]
    /\ UNCHANGED <<alive, faulted, auth_state, subscribers, bridges, nextId,
                   heapInv, heapItem, deletedItems>>

\* DataAgentRequest::GetItem(inventory_uuid, item_uuid)
GetItem(id, inventory_uuid, item_uuid) ==
    /\ CanHandle(id)
    /\ UNCHANGED avars
    /\ last' = [op |-> "GetItem", id |-> id, inventory_uuid |-> inventory_uuid,
                item_uuid |-> item_uuid]
    /\ LET k == find_inv(inventories, inventory_uuid)
       IN IF k = 0
          THEN Fault
          ELSE /\ LET j == Position(inventories[k].items, item_uuid)
                      res == IF j # 0
                             THEN Msg("Item", ItemHandle(inventories[k].items[j]))
                             ELSE Msg("InvalidInventoryUuid", 0)
                  IN out' = Respond(<<>>, id, res, inventories, store)
               /\ UNCHANGED <<alive, faulted, inventories, store, auth_state,
                              subscribers, bridges, nextId, heapInv, heapItem,
                              created, deletedItems>>

\* DataAgentRequest::UpdateItem { target, name, ean }; target.write() is Ok as above
UpdateItem(id, target, name, ean) ==
    /\ CanHandle(id)
    /\ LET k == find_inv(inventories, target.inventory_uuid)
           j == Position(inventories[k].items, target.uuid)
           invs == IF LiveItem(target)
                   THEN [inventories EXCEPT ![k].items[j].name = name,
                                            ![k].items[j].ean = ean]
                   ELSE inventories
           st == PersistData(invs, store)
       IN /\ inventories' = invs
          /\ store' = st
          /\ out' = Respond(<<>>, id, Msg("UpdatedItem", 0), invs, st)
    /\ UNCHANGED avars
    /\ last' = [op |-> "UpdateItem", id |-> id, target |-> target, name |-> name,
                ean |-> ean]
    /\ UNCHANGED <<alive, faulted, auth_state, subscribers, bridges, nextId,
                   heapInv, heapItem, created, deletedItems>>

DeleteInventoryBroadcast(id, target) ==
    /\ CanHandle(id)
    /\ UNCHANGED avars
    /\ last' = [op |-> "DeleteInventory", id |-> id, target |-> target]
    /\ LET target_uuid == target.uuid
           index == Position(inventories, target_uuid)
       IN IF index = 0
          THEN Fault
          ELSE /\ LET invs == Remove(inventories, index)
                      st == PersistData(invs, store)
                      o1 == Respond(<<>>, id, Msg("DeletedInventory", target_uuid), invs, st)
                  IN /\ inventories' = invs
                     /\ store' = st
                     /\ \E order \in Orders(subscribers) :
                          out' = BroadcastTo(o1, order, InventoriesMsg(invs), invs, st)
               /\ created' = { c \in created : c.uuid # target_uuid }
               /\ UNCHANGED <<alive, faulted, auth_state, subscribers, bridges,
                              nextId, heapInv, heapItem, deletedItems>>

\* DataAgentRequest::DeleteInventory(target)
DeleteInventory(id, target) ==
    /\ CanHandle(id)
    /\ UNCHANGED avars
    /\ last' = [op |-> "DeleteInventory", id |-> id, target |-> target]
    /\ LET target_uuid == target.uuid
           index == Position(inventories, target_uuid)
       IN IF index = 0
          THEN Fault
          ELSE /\ LET invs == Remove(inventories, index)
                      st == PersistData(invs, store)
                  IN /\ inventories' = invs
                     /\ store' = st
                     /\ out' = Respond(<<>>, id, Msg("DeletedInventory", target_uuid), invs, st)
               /\ created' = { c \in created : c.uuid # target_uuid }
               /\ UNCHANGED <<alive, faulted, auth_state, subscribers, bridges,
                              nextId, heapInv, heapItem, deletedItems>>

\* DataAgentRequest::DeleteItem(target)
DeleteItem(id, target) ==
    /\ CanHandle(id)
    /\ UNCHANGED avars
    /\ last' = [op |-> "DeleteItem", id |-> id, target |-> target]
    /\ LET k == Position(inventories, target.inventory_uuid)
           item_index == Position(inventories[k].items, target.uuid)
       IN IF k = 0 \/ item_index = 0
          THEN Fault
          ELSE /\ LET invs == [inventories EXCEPT ![k].items = Remove(@, item_index)]
                      st == PersistData(invs, store)
                  IN /\ inventories' = invs
                     /\ store' = st
                     /\ out' = Respond(<<>>, id, Msg("DeletedItem", target.uuid), invs, st)
               /\ deletedItems' = deletedItems \cup
                     {[inventory_uuid |-> target.inventory_uuid, uuid |-> target.uuid]}
               /\ UNCHANGED <<alive, faulted, auth_state, subscribers, bridges,
                              nextId, heapInv, heapItem, created>>

Uuids == 1..MaxIds

Next ==
    \/ Create
    \/ PageReload
    \/ \E id \in HandlerIds : Connected(id)
    \/ \E id \in HandlerIds : Disconnected(id)
    \/ \E a \in AuthStates : Update(a)
    \/ \E id \in HandlerIds : GetInventories(id)
    \/ \E id \in HandlerIds : MakeDebugInventory(id)
    \/ \E id \in HandlerIds, name \in Names : CreateInventory(id, name)
    \/ \E id \in HandlerIds : DeleteAllData(id)
    \/ \E id \in HandlerIds, u \in Uuids : GetInventory(id, u)
    \/ \E id \in HandlerIds, u \in Uuids, i \in ItemArgs :
          CreateItem(id, u, i.name, i.ean)
    \/ \E id \in HandlerIds, t \in heapInv, a \in UpdateInvArgs : UpdateInventory(id, t, a)
    \/ \E id \in HandlerIds, u \in Uuids, v \in Uuids : GetItem(id, u, v)
    \/ \E id \in HandlerIds, t \in heapItem, i \in ItemArgs :
          UpdateItem(id, t, i.name, i.ean)
    \/ \E id \in HandlerIds, t \in heapInv : DeleteInventory(id, t)
    \/ \E id \in HandlerIds, t \in heapItem : DeleteItem(id, t)

Spec == Init /\ [][Next]_vars

\* ---- the Session Agent: src/src/services/auth.rs -------------------------
\* An AuthState value that is in flight owns the FetchTask of its call; the
\* value is an Rc that handle_input hands to every subscriber and keeps no
\* copy of.  Dropping the last copy drops the FetchTask, and a FetchTask that
\* is dropped while active cancels its call: the callback is never run.
\* A call is "inflight" (its callback will reach the agent), "orphaned" (the
\* agent instance that started it was destroyed), "done" or "aborted"; of a
\* call that is over only the way it ended is kept.

probe_state_callback_strict(r) ==
    IF r.ok THEN [type |-> "LoggedIn", user_info |-> r.user_info]
    ELSE [type |-> "LoginError", error |-> r.cause]

\* the callback of probe_state
probe_state_callback(r) ==
    IF r.ok THEN [type |-> "LoggedIn", user_info |-> r.user_info]
    ELSE [type |-> "LoggedOut"]

login_callback_lenient(r) ==
    IF r.ok THEN [type |-> "LoggedIn", user_info |-> r.user_info]
    ELSE [type |-> "LoggedOut"]

\* the callback of login
login_callback(r) ==
    IF r.ok THEN [type |-> "LoggedIn", user_info |-> r.user_info]
    ELSE [type |-> "LoginError", error |-> r.cause]

\* the callback of signup
signup_callback(r) ==
    IF r.ok THEN [type |-> "LoggedIn", user_info |-> r.user_info]
    ELSE [type |-> "LoginError", error |-> r.cause]

logout_callback_lenient(r) == [type |-> "LoggedOut"]

\* the callback of logout
logout_callback(r) ==
    IF r.ok THEN [type |-> "LoggedOut"]
    ELSE [type |-> "LoginError", error |-> r.cause]

Callback(fn, r) ==
    CASE fn = "probe_state" -> probe_state_callback(r)
      [] fn = "login" -> login_callback(r)
      [] fn = "signup" -> signup_callback(r)
      [] fn = "logout" -> logout_callback(r)

UpdateOutputInitial(msg) == [kind |-> "Initial"]

\* AuthAgent::update: the AuthState a message becomes
UpdateOutput(msg) ==
    CASE msg.type = "LoggedIn" -> [kind |-> "LoggedIn", user_info |-> msg.user_info]
      [] msg.type = "LoginError" -> [kind |-> "Error", error |-> msg.error]
      [] msg.type = "LoggedOut" -> [kind |-> "Initial"]

\* the function handle_input calls for a request
FnOf(req) ==
    CASE req = "GetAuthStatus" -> "probe_state"
      [] req = "Login" -> "login"
      [] req = "Signup" -> "signup"
      [] req = "Logout" -> "logout"

\* match task { Ok(fetch_task) => AuthState::<in flight>(fetch_task),
\*              Err(error) => AuthState::Error(error) }
InFlight(fn, started, c) ==
    IF ~started THEN [kind |-> "Error", error |-> "not started"]
    ELSE CASE fn = "probe_state" -> [kind |-> "Probing", task |-> c]
           [] fn = "login" -> [kind |-> "LoggingIn", task |-> c]
           [] fn = "signup" -> [kind |-> "LoggingIn", task |-> c]
           [] fn = "logout" -> [kind |-> "LoggingOut", task |-> c]

\* the call whose FetchTask an AuthState value owns
TaskOf(v) == IF v.kind \in {"Probing", "LoggingIn", "LoggingOut"} THEN {v.task} ELSE {}

\* self.link.respond(*sub, output.clone())
AuthRespond(o, id, v) == Append(o, [to |-> id, val |-> v])

AuthRespondFirst(o, order, v) ==
    IF order = <<>> THEN o ELSE AuthRespond(o, Head(order), v)

RECURSIVE AuthRespondAll(_, _, _)
\* for sub in self.subscribers.iter() { self.link.respond(*sub, output.clone()) }
AuthRespondAll(o, order, v) ==
    IF order = <<>> THEN o
    ELSE AuthRespondAll(AuthRespond(o, Head(order), v), Tail(order), v)

\* what the consumers hold after a value was sent to the subscribers S: the
\* DataAgent assigns the value to auth_state, which drops the value it tracked
\* before; a view keeps the value until it drops it; a handler without a
\* callback is sent nothing and its copy is dropped
Deliver(h, S, v) ==
    [id \in AuthHandlerIds |->
        IF id \in S /\ id.respondable
        THEN IF id = DataBridge THEN TaskOf(v) ELSE h[id] \cup TaskOf(v)
        ELSE h[id]]

\* impl Drop for FetchTask: a call whose AuthState value nobody holds is cancelled
Reap(cs, h) ==
    [c \in DOMAIN cs |->
        IF cs[c].state \in {"inflight", "orphaned"} /\ \A id \in AuthHandlerIds : c \notin h[id]
        THEN [op |-> "none", state |-> "aborted"]
        ELSE cs[c]]

\* the agent is destroyed: messages of its callbacks are discarded from now on
Orphan(cs) ==
    [c \in DOMAIN cs |->
        IF cs[c].state = "inflight" THEN [cs[c] EXCEPT !.state = "orphaned"] ELSE cs[c]]

\* AuthAgent::connected; the agent is created with its first bridge
AuthConnected(id) ==
    /\ aBridges' = aBridges \cup {id}
    /\ aSubs' = aSubs \cup {id}
    /\ aOut' = <<>>
    /\ aLast' = [op |-> "connected", id |-> id]
    /\ UNCHANGED <<calls, held, lastB, prevB>>
    /\ UNCHANGED vars

AuthDisconnectedKeeps(id) ==
    /\ id \in aBridges
    /\ aBridges' = aBridges \ {id}
    /\ aSubs' = IF aBridges' = {} THEN {} ELSE aSubs
    /\ held' = IF id = DataBridge THEN [held EXCEPT ![id] = {}] ELSE held
    /\ calls' = Reap(IF aBridges' = {} THEN Orphan(calls) ELSE calls, held')
    /\ lastB' = IF aBridges' = {} THEN "none" ELSE lastB
    /\ prevB' = IF aBridges' = {} THEN "none" ELSE prevB
    /\ aOut' = <<>>
    /\ aLast' = [op |-> "disconnected", id |-> id]
    /\ UNCHANGED vars

\* AuthAgent::disconnected; the agent is destroyed with its last bridge.  The
\* DataAgent's bridge is dropped with the DataAgent and its auth_state
AuthDisconnected(id) ==
    /\ id \in aBridges
    /\ aBridges' = aBridges \ {id}
    /\ aSubs' = IF aBridges' = {} THEN {} ELSE aSubs \ {id}
    /\ held' = IF id = DataBridge THEN [held EXCEPT ![id] = {}] ELSE held
    /\ calls' = Reap(IF aBridges' = {} THEN Orphan(calls) ELSE calls, held')
    /\ lastB' = IF aBridges' = {} THEN "none" ELSE lastB
    /\ prevB' = IF aBridges' = {} THEN "none" ELSE prevB
    /\ aOut' = <<>>
    /\ aLast' = [op |-> "disconnected", id |-> id]
    /\ UNCHANGED vars

\* AuthAgent::handle_input(msg, _id): start the call, send the in-flight
\* AuthState (or Error when the call could not be started) to every
\* subscriber.  Requests come from views: the DataAgent sends none
AuthHandleInput(id, req, started) ==
    /\ id \in aBridges /\ id # DataBridge
    /\ started => Len(calls) < MaxCalls
    /\ LET c == Len(calls) + 1
           output == InFlight(FnOf(req), started, c)
           cs == IF started
                 THEN Append(calls, [op |-> FnOf(req), state |-> "inflight"])
                 ELSE calls
       IN /\ \E order \in Orders(aSubs) : aOut' = AuthRespondAll(<<>>, order, output)
          /\ held' = Deliver(held, aSubs, output)
          /\ calls' = Reap(cs, held')
          /\ lastB' = output.kind
          /\ prevB' = lastB
          /\ aLast' = [op |-> "handle_input", id |-> id, req |-> req,
                       started |-> started, output |-> output]
    /\ UNCHANGED <<aBridges, aSubs>>
    /\ UNCHANGED vars

\* a call completes with response r: its callback makes a Msg and
\* AuthAgent::update sends the AuthState it becomes to every subscriber; the
\* message of a call started by a destroyed agent instance is discarded
AuthUpdate(c, r) ==
    /\ c \in DOMAIN calls
    /\ calls[c].state \in {"inflight", "orphaned"}
    /\ LET cs == [calls EXCEPT ![c] = [op |-> "none", state |-> "done"]]
           output == UpdateOutput(Callback(calls[c].op, r))
       IN IF calls[c].state = "orphaned"
          THEN /\ calls' = cs
               /\ aOut' = <<>>
               /\ aLast' = [op |-> "update", call |-> c, fn |-> calls[c].op,
                            response |-> r, handled |-> FALSE]
               /\ UNCHANGED <<held, lastB, prevB>>
          ELSE /\ \E order \in Orders(aSubs) : aOut' = AuthRespondAll(<<>>, order, output)
               /\ held' = Deliver(held, aSubs, output)
               /\ calls' = Reap(cs, held')
               /\ lastB' = output.kind
               /\ prevB' = lastB
               /\ aLast' = [op |-> "update", call |-> c, fn |-> calls[c].op,
                            response |-> r, handled |-> TRUE, output |-> output]
    /\ UNCHANGED <<aBridges, aSubs>>
    /\ UNCHANGED vars

\* a view drops an AuthState value it received (it replaces the value it
\* shows, or it is torn down)
DropHeld(id, c) ==
    /\ id.respondable /\ id # DataBridge
    /\ c \in held[id]
    /\ held' = [held EXCEPT ![id] = @ \ {c}]
    /\ calls' = Reap(calls, held')
    /\ aOut' = <<>>
    /\ aLast' = [op |-> "drop", id |-> id, call |-> c]
    /\ UNCHANGED <<aBridges, aSubs, lastB, prevB>>
    /\ UNCHANGED vars

CallIds == 1..MaxCalls

NextAuth ==
    \/ \E id \in AuthHandlerIds : AuthConnected(id)
    \/ \E id \in AuthHandlerIds : AuthDisconnected(id)
    \/ \E id \in AuthHandlerIds, req \in AuthRequests, started \in BOOLEAN :
          AuthHandleInput(id, req, started)
    \/ \E c \in CallIds, r \in Responses : AuthUpdate(c, r)
    \/ \E id \in AuthHandlerIds, c \in CallIds : DropHeld(id, c)

allvars == <<vars, avars>>

SpecAuth == Init /\ [][NextAuth]_allvars

\* ---- the DataAgent as a subscriber of the Session Agent --------------------
\* DataAgent::create opens a bridge to the AuthAgent whose callback is
\* Msg::NewAuthState, and sends no request through it.  The bridge is a field
\* of the DataAgent and is dropped with it.  A value the AuthAgent sends to
\* that bridge is a message in the scheduler's queue, which is run to the end
\* before the page handles its next event: nothing else happens in between.

\* AuthAgent::bridge(..) in DataAgent::create
AuthBridgeOpen ==
    /\ alive /\ DataBridge \notin aBridges
    /\ AuthConnected(DataBridge)

\* the DataAgent was destroyed: its auth_bridge is dropped
AuthBridgeDrop ==
    /\ ~alive /\ DataBridge \in aBridges
    /\ AuthDisconnected(DataBridge)

\* the value sent to the DataAgent's bridge that it has not assigned yet
Undelivered ==
    { aOut[k].val : k \in { i \in 1..Len(aOut) :
                              /\ alive /\ aOut[i].to = DataBridge
                              /\ aOut[i].val # auth_state } }

\* link.callback(Msg::NewAuthState) runs DataAgent::update with the value
NewAuthState == \E v \in Undelivered : Update(v)

\* the queue is empty and the bridge is as the DataAgent's life requires
Settled ==
    /\ alive <=> DataBridge \in aBridges
    /\ Undelivered = {}

\* the bridges of views at the DataAgent
ViewIds == { id \in HandlerIds : id.respondable }

NextTrack ==
    \/ AuthBridgeOpen
    \/ AuthBridgeDrop
    \/ NewAuthState
    \/ Settled /\ Create
    \/ Settled /\ \E id \in ViewIds : Connected(id)
    \/ Settled /\ \E id \in ViewIds : Disconnected(id)
    \/ Settled /\ \E id \in ViewIds, name \in Names : CreateInventory(id, name)
    \/ Settled /\ AuthConnected(ViewBridge)
    \/ Settled /\ AuthDisconnected(ViewBridge)
    \/ Settled /\ \E req \in AuthRequests, started \in BOOLEAN :
                     AuthHandleInput(ViewBridge, req, started)
    \/ Settled /\ \E c \in CallIds, r \in Responses : AuthUpdate(c, r)
    \/ Settled /\ \E c \in CallIds : DropHeld(ViewBridge, c)

SpecTrack == Init /\ [][NextTrack]_allvars

\* ---- properties --------------------------------------------------------
HandleList(invs) == [k \in 1..Len(invs) |-> [uuid |-> invs[k].uuid]]

UuidsInUse ==
    { inventories[k].uuid : k \in 1..Len(inventories) }
    \cup UNION { { inventories[k].items[j].uuid : j \in 1..Len(inventories[k].items) }
                 : k \in 1..Len(inventories) }
    \cup { h.uuid : h \in heapInv } \cup { h.uuid : h \in heapItem }

\* C1: CreateInventory(name) handled while the tracked AuthState is
\* LoggedIn(user) appends exactly one inventory at the end of the collection,
\* with the given name, the user's id as owner, empty admins, writables,
\* readables and items and an id not in use; the snapshot is written; the
\* first response is NewInventoryUuid(id) to the requester and every
\* subscriber is sent the updated Inventories list.
C1_CreateInventoryAppends ==
    [][ (last'.op = "CreateInventory" /\ auth_state.kind = "LoggedIn") =>
          LET n == Len(inventories)
              inv == inventories'[n + 1]
          IN /\ Len(inventories') = n + 1
             /\ SubSeq(inventories', 1, n) = inventories
             /\ inv.name = last'.name
             /\ inv.owner = auth_state.user_info.uuid
             /\ inv.admins = <<>> /\ inv.writables = <<>> /\ inv.readables = <<>>
             /\ inv.items = <<>>
             /\ inv.uuid \notin UuidsInUse
             /\ store' = Serialize(inventories')
             /\ Len(out') = 1 + Cardinality(subscribers)
             /\ out'[1].to = last'.id
             /\ out'[1].msg = [type |-> "NewInventoryUuid", val |-> inv.uuid]
             /\ \A s \in subscribers :
                   \E k \in 2..Len(out') :
                       /\ out'[k].to = s
                       /\ out'[k].msg = [type |-> "Inventories", val |-> HandleList(inventories')]
      ]_vars

\* a second inventory was created by a requester that is no subscriber while
\* a subscriber was connected
C1_Witness ==
    /\ last.op = "CreateInventory"
    /\ Len(inventories) = 2
    /\ Len(out) = 2
    /\ ~last.id.respondable
    /\ out[2].to.respondable

\* C2: GetInventory(id) for an id that CreateInventory returned, with no
\* DeleteInventory, DeleteAllData or UpdateInventory of it since, replies
\* Inventory(ref) to the requester, and ref is the inventory of the collection
\* with that id, the requested name and the creating user as owner.
C2_GetAfterCreate ==
    \A c \in created :
        (last.op = "GetInventory" /\ last.inv_uuid = c.uuid) =>
            /\ Len(out) = 1
            /\ out[1].to = last.id
            /\ out[1].msg.type = "Inventory"
            /\ out[1].msg.val.uuid = c.uuid
            /\ \E k \in 1..Len(inventories) :
                  /\ inventories[k].uuid = out[1].msg.val.uuid
                  /\ inventories[k].name = c.name
                  /\ inventories[k].owner = c.owner

\* the second of two inventories, made by CreateInventory, was fetched
C2_Witness ==
    /\ last.op = "GetInventory"
    /\ Len(inventories) = 2
    /\ last.inv_uuid = inventories[2].uuid
    /\ \E c \in created : c.uuid = last.inv_uuid
    /\ Len(out) = 1 /\ out[1].msg.type = "Inventory"

\* C3: CreateInventory handled while the tracked AuthState is not LoggedIn
\* emits no response and leaves the collection and the snapshot unchanged.
C3_CreateInventoryNoOp ==
    [][ (last'.op = "CreateInventory" /\ auth_state.kind # "LoggedIn") =>
          /\ out' = <<>>
          /\ inventories' = inventories
          /\ store' = store
      ]_vars

\* a CreateInventory was dropped while a logout was in flight, a subscriber
\* was connected and the collection was not empty
C3_Witness ==
    /\ last.op = "CreateInventory"
    /\ auth_state.kind = "LoggingOut"
    /\ out = <<>>
    /\ subscribers # {}
    /\ Len(inventories) = 1
\* C4: GetItem(inventory_id, item_id) always ends with exactly one typed
\* reply to the requester and never with a fault: Item(ref) when the inventory
\* is in the collection and the item in its sequence, InvalidInventoryUuid in
\* every other case.
C4_GetItemAlwaysReplies ==
    last.op = "GetItem" =>
        /\ ~faulted
        /\ Len(out) = 1
        /\ out[1].to = last.id
        /\ IF \E k \in 1..Len(inventories) :
                 /\ inventories[k].uuid = last.inventory_uuid
                 /\ \E j \in 1..Len(inventories[k].items) :
                       inventories[k].items[j].uuid = last.item_uuid
           THEN out[1].msg = [type |-> "Item",
                              val |-> [uuid |-> last.item_uuid,
                                       inventory_uuid |-> last.inventory_uuid]]
           ELSE out[1].msg.type = "InvalidInventoryUuid"

\* C5: once DeleteItem has replied DeletedItem(id), every later GetItem for
\* that item id and the inventory id it belonged to is answered with
\* InvalidInventoryUuid.
C5_GetItemAfterDelete ==
    (/\ last.op = "GetItem"
     /\ [inventory_uuid |-> last.inventory_uuid, uuid |-> last.item_uuid] \in deletedItems)
    => /\ ~faulted
       /\ Len(out) = 1
       /\ out[1].to = last.id
       /\ out[1].msg.type = "InvalidInventoryUuid"

\* C6: DeleteInventory(target) with target's id in the collection removes
\* exactly the entry with that id, keeps the other inventories and their
\* order, writes the snapshot and replies DeletedInventory(id) to the requester.
C6_DeleteInventoryRemovesOne ==
    [][ (/\ last'.op = "DeleteInventory"
         /\ \E k \in 1..Len(inventories) : inventories[k].uuid = last'.target.uuid)
        => LET k == CHOOSE k \in 1..Len(inventories) :
                        inventories[k].uuid = last'.target.uuid
           IN /\ \A j \in 1..Len(inventories) :
                    inventories[j].uuid = last'.target.uuid => j = k
              /\ inventories' = [j \in 1..(Len(inventories) - 1) |->
                                    IF j < k THEN inventories[j] ELSE inventories[j + 1]]
              /\ store' = Serialize(inventories')
              /\ out' = << [to |-> last'.id,
                            msg |-> [type |-> "DeletedInventory", val |-> last'.target.uuid],
                            persisted |-> TRUE] >>
      ]_vars

\* the first of two inventories was deleted and the second is what is left
C6_Witness ==
    /\ last.op = "DeleteInventory"
    /\ ~faulted
    /\ Len(inventories) = 1
    /\ inventories[1].uuid > last.target.uuid
    /\ out[1].msg.type = "DeletedInventory"

\* C7 as stated: a successful DeleteInventory sends every subscriber the
\* Inventories list without the deleted inventory.
C7_DeleteInventoryBroadcasts ==
    (last.op = "DeleteInventory" /\ ~faulted) =>
        \A s \in subscribers :
            \E k \in 1..Len(out) :
                /\ out[k].to = s
                /\ out[k].msg = [type |-> "Inventories", val |-> HandleList(inventories)]

\* C7 amended: a successful DeleteInventory emits one response only, the
\* DeletedInventory reply to the requester; no Inventories list is sent, and
\* a subscriber that is not the requester is sent nothing.
C7_DeleteInventoryRepliesOnly ==
    (last.op = "DeleteInventory" /\ ~faulted) =>
        /\ Len(out) = 1
        /\ \A k \in 1..Len(out) :
              /\ out[k].msg.type # "Inventories"
              /\ out[k].msg.type = "DeletedInventory"
              /\ out[k].to = last.id

\* an inventory was deleted by a requester that is no subscriber while a
\* subscriber was connected
C7_Witness ==
    /\ last.op = "DeleteInventory"
    /\ ~faulted
    /\ subscribers # {}
    /\ last.id \notin subscribers
    /\ Len(out) = 1

\* C8: an agent constructed from the snapshot has the collection the previous
\* agent had in memory (inventories, order, fields, item sequences); without
\* a snapshot the loaded collection is empty.
C8_ReloadRoundTrip ==
    [][ last'.op = "create" =>
          /\ inventories' = inventories
          /\ (store = <<"absent">> => inventories' = <<>>)
      ]_vars

\* an agent was constructed from a snapshot that holds an inventory with an item
C8_Witness ==
    /\ last.op = "create"
    /\ \E k \in 1..Len(inventories) :
          /\ Len(inventories[k].items) = 1
          /\ inventories[k].items[1].ean = <<"123">>

MutatingOps ==
    {"MakeDebugInventory", "CreateInventory", "UpdateInventory", "DeleteInventory",
     "CreateItem", "UpdateItem", "DeleteItem", "DeleteAllData"}

RequestOps == MutatingOps \cup {"GetInventories", "GetInventory", "GetItem"}

\* C9: every response of a mutating request is emitted when the snapshot
\* equals the whole collection, a mutating request that was carried out
\* leaves the snapshot equal to the collection, and after every request
\* handler the snapshot read back is the collection.
C9_PersistBeforeReply ==
    /\ (last.op \in MutatingOps =>
          /\ \A k \in 1..Len(out) : out[k].persisted
          /\ (~faulted /\ ~(last.op = "CreateInventory" /\ auth_state.kind # "LoggedIn"))
                => store = Serialize(inventories))
    /\ (last.op \in RequestOps =>
          inventories = (IF store = <<"absent">> THEN <<>> ELSE Deserialize(store)))

\* an item was deleted and the reply was emitted after the write
C9_Witness ==
    /\ last.op = "DeleteItem"
    /\ ~faulted
    /\ Len(out) = 1
    /\ out[1].persisted
    /\ Len(inventories) = 1

C19_ItemParent ==
    \A k \in 1..Len(inventories) :
        \A j \in 1..Len(inventories[k].items) :
            inventories[k].items[j].inventory_uuid = inventories[k].uuid

\* an item is in the collection after it was created and then updated
C19_Witness ==
    /\ last.op = "UpdateItem"
    /\ \E k \in 1..Len(inventories) :
          \E j \in 1..Len(inventories[k].items) :
              /\ inventories[k].items[j].uuid = last.target.uuid
              /\ inventories[k].items[j].name = last.name

C21_UpdateInPlace ==
    [][ /\ last'.op = "UpdateInventory" =>
           LET t == last'.target
               a == last'.args
           IN /\ Len(inventories') = Len(inventories)
              /\ \A k \in 1..Len(inventories) :
                    IF inventories[k].uuid = t.uuid
                    THEN inventories'[k] =
                            [inventories[k] EXCEPT !.name = a.name,
                                                   !.owner = a.owner,
                                                   !.admins = a.admins,
                                                   !.writables = a.writables,
                                                   !.readables = a.readables]
                    ELSE inventories'[k] = inventories[k]
              /\ store' = Serialize(inventories')
              /\ out' = <<[to |-> last'.id, msg |-> [type |-> "UpdatedInventory", val |-> t],
                           persisted |-> TRUE]>>
              /\ ~faulted'
        /\ last'.op = "UpdateItem" =>
           LET t == last'.target
           IN /\ Len(inventories') = Len(inventories)
              /\ \A k \in 1..Len(inventories) :
                    /\ [inventories'[k] EXCEPT !.items = inventories[k].items] = inventories[k]
                    /\ Len(inventories'[k].items) = Len(inventories[k].items)
                    /\ \A j \in 1..Len(inventories[k].items) :
                          IF /\ inventories[k].uuid = t.inventory_uuid
                             /\ inventories[k].items[j].uuid = t.uuid
                          THEN inventories'[k].items[j] =
                                  [inventories[k].items[j] EXCEPT !.name = last'.name,
                                                                  !.ean = last'.ean]
                          ELSE inventories'[k].items[j] = inventories[k].items[j]
              /\ store' = Serialize(inventories')
              /\ out' = <<[to |-> last'.id, msg |-> [type |-> "UpdatedItem", val |-> 0],
                           persisted |-> TRUE]>>
              /\ ~faulted' ]_vars

\* an inventory of the collection was updated and then its item was
C21_Witness ==
    /\ last.op = "UpdateItem"
    /\ \E k \in 1..Len(inventories) :
          /\ inventories[k].uuid = last.target.inventory_uuid
          /\ inventories[k].name = "b"
          /\ inventories[k].owner = 102
          /\ \E j \in 1..Len(inventories[k].items) :
                /\ inventories[k].items[j].uuid = last.target.uuid
                /\ inventories[k].items[j].name = last.name
                /\ inventories[k].items[j].ean = last.ean

\* ---- properties of DeleteAllData and of the faults -----------------------
\* C22: after DeleteAllData is handled, whatever the collection held and
\* whatever the tracked AuthState is, the collection is empty, the snapshot is
\* the serialized empty collection, and the responses are exactly one
\* Inventories(<<>>) to each current subscriber, sent after the write.
C22_DeleteAllDataEmpties ==
    last.op = "DeleteAllData" =>
       /\ inventories = <<>>
       /\ store = Serialize(<<>>)
       /\ Len(out) = Cardinality(subscribers)
       /\ \A s \in subscribers : \E k \in 1..Len(out) : out[k].to = s
       /\ \A k \in 1..Len(out) :
             /\ out[k].to \in subscribers
             /\ out[k].msg = [type |-> "Inventories", val |-> <<>>]
             /\ out[k].persisted

\* DeleteAllData was handled while not logged in, with a subscriber, in an
\* instance that had handed out a handle to an inventory
C22_Witness ==
    /\ last.op = "DeleteAllData"
    /\ auth_state.kind # "LoggedIn"
    /\ subscribers # {}
    /\ heapInv # {}
    /\ inventories = <<>>

\* C25: a DeleteInventory whose target's uuid is not in the collection, a
\* CreateItem whose inventory_uuid is not in the collection, and a DeleteItem
\* whose target's inventory_uuid is not in the collection or whose uuid is
\* not in that inventory's item sequence, fault: the collection and the
\* snapshot stay as they were and no response is sent.
C25_FaultBeforeMutation ==
    [][ LET InColl(u) == \E k \in 1..Len(inventories) : inventories[k].uuid = u
            HasItem(u, v) ==
                \E k \in 1..Len(inventories) :
                    /\ inventories[k].uuid = u
                    /\ \E j \in 1..Len(inventories[k].items) :
                          inventories[k].items[j].uuid = v
        IN (\/ last'.op = "DeleteInventory" /\ ~InColl(last'.target.uuid)
            \/ last'.op = "CreateItem" /\ ~InColl(last'.inventory_uuid)
            \/ last'.op = "DeleteItem"
               /\ ~HasItem(last'.target.inventory_uuid, last'.target.uuid)) =>
              /\ faulted'
              /\ inventories' = inventories
              /\ store' = store
              /\ out' = <<>> ]_vars

\* the second DeleteItem on the handle of a deleted item has faulted, and the
\* collection and its snapshot still hold the inventory
C25_Witness ==
    /\ faulted
    /\ last.op = "DeleteItem"
    /\ [inventory_uuid |-> last.target.inventory_uuid, uuid |-> last.target.uuid]
          \in deletedItems
    /\ inventories # <<>>
    /\ store = Serialize(inventories)
    /\ out = <<>>

\* ---- properties of the routing of the responses ---------------------------
\* the requests that are answered by link.respond(id, ..) alone
DirectOps ==
    {"GetInventory", "GetItem", "CreateItem", "UpdateInventory", "UpdateItem",
     "DeleteInventory", "DeleteItem"}

\* the requests whose fault on a target that does not resolve is C25's
FatalOps == {"CreateItem", "DeleteInventory", "DeleteItem"}

\* C24: after GetInventory, GetItem, CreateItem, UpdateInventory, UpdateItem,
\* DeleteInventory or DeleteItem was handled (the faults of C25 aside) there
\* is exactly one response and it is addressed to the requester; after
\* CreateInventory or MakeDebugInventory added an inventory the first
\* response is NewInventoryUuid to the requester and every later one is the
\* Inventories broadcast.
C24_DirectReplyOnce ==
    /\ (last.op \in DirectOps /\ ~(faulted /\ last.op \in FatalOps)) =>
          /\ Len(out) = 1
          /\ out[1].to = last.id
    /\ (last.op \in {"CreateInventory", "MakeDebugInventory"} /\ out # <<>>) =>
          /\ out[1].to = last.id
          /\ out[1].msg.type = "NewInventoryUuid"
          /\ \A k \in 2..Len(out) :
                /\ out[k].msg.type = "Inventories"
                /\ out[k].to \in subscribers

\* ---- properties of the tracked AuthState ----------------------------------
\* C23: a CreateInventory handled by the DataAgent, with every value the
\* Session Agent sent to it already assigned, adds an inventory exactly when
\* the value the Session Agent broadcast last is LoggedIn.
C23_AcceptsIffLatestLoggedIn ==
    [][ (last'.op = "CreateInventory" /\ UNCHANGED avars) =>
           ((inventories' # inventories) <=> (lastB = "LoggedIn")) ]_allvars

\* ---- properties of the Session Agent -------------------------------------
\* C11: a GetAuthStatus request whose call was started sends Probing to every
\* subscriber; when the probe call completes, every subscriber is sent
\* LoggedIn(user) if the response body is a user profile and Initial if the
\* probe was rejected (or the backend was not reached); the completion of a
\* probe never sends Error.
C11_ProbeOutcome ==
    /\ (aLast.op = "handle_input" /\ aLast.req = "GetAuthStatus" /\ aLast.started) =>
          /\ aOut # <<>>
          /\ \A k \in 1..Len(aOut) : aOut[k].val.kind = "Probing"
          /\ \A s \in aSubs : \E k \in 1..Len(aOut) : aOut[k].to = s
    /\ (aLast.op = "update" /\ aLast.fn = "probe_state" /\ aLast.handled) =>
          /\ aOut # <<>>
          /\ \A k \in 1..Len(aOut) :
                /\ aOut[k].val.kind # "Error"
                /\ aOut[k].val = IF aLast.response.ok
                                 THEN [kind |-> "LoggedIn",
                                       user_info |-> aLast.response.user_info]
                                 ELSE [kind |-> "Initial"]
          /\ \A s \in aSubs : \E k \in 1..Len(aOut) : aOut[k].to = s

\* a rejected probe has completed and its outcome was sent to a subscriber
C11_Witness ==
    /\ aLast.op = "update" /\ aLast.fn = "probe_state" /\ aLast.handled
    /\ ~aLast.response.ok /\ aLast.response.cause = "rejected"
    /\ \E k \in 1..Len(aOut) : aOut[k].val.kind = "Initial"

\* C12: a Login or Signup request whose call was started sends LoggingIn to
\* every subscriber; when the call completes, every subscriber is sent
\* LoggedIn(user) on success and Error(reason) on failure, and nothing else.
C12_LoginOutcome ==
    /\ (aLast.op = "handle_input" /\ aLast.req \in {"Login", "Signup"} /\ aLast.started) =>
          /\ aOut # <<>>
          /\ \A k \in 1..Len(aOut) : aOut[k].val.kind = "LoggingIn"
          /\ \A s \in aSubs : \E k \in 1..Len(aOut) : aOut[k].to = s
    /\ (aLast.op = "update" /\ aLast.fn \in {"login", "signup"} /\ aLast.handled) =>
          /\ aOut # <<>>
          /\ \A k \in 1..Len(aOut) :
                aOut[k].val = IF aLast.response.ok
                              THEN [kind |-> "LoggedIn",
                                    user_info |-> aLast.response.user_info]
                              ELSE [kind |-> "Error", error |-> aLast.response.cause]
          /\ \A s \in aSubs : \E k \in 1..Len(aOut) : aOut[k].to = s

\* a login call has failed and Error was sent
C12_Witness ==
    /\ aLast.op = "update" /\ aLast.fn = "login" /\ aLast.handled
    /\ ~aLast.response.ok
    /\ \E k \in 1..Len(aOut) : aOut[k].val.kind = "Error"

\* C13: when a logout call completes, every subscriber is sent Initial unless
\* the call was rejected or the backend was not reached, and Error(reason) in
\* exactly those two cases, whatever was broadcast before the Logout request.
C13_LogoutOutcome ==
    (aLast.op = "update" /\ aLast.fn = "logout" /\ aLast.handled) =>
        /\ aOut # <<>>
        /\ \A k \in 1..Len(aOut) :
              /\ aLast.response.ok => aOut[k].val = [kind |-> "Initial"]
              /\ ~aLast.response.ok =>
                    /\ aLast.response.cause \in {"rejected", "unreachable"}
                    /\ aOut[k].val = [kind |-> "Error", error |-> aLast.response.cause]
        /\ \A s \in aSubs : \E k \in 1..Len(aOut) : aOut[k].to = s

\* a logout call has succeeded and Initial was sent
C13_Witness ==
    /\ aLast.op = "update" /\ aLast.fn = "logout" /\ aLast.handled
    /\ aLast.response.ok
    /\ \E k \in 1..Len(aOut) : aOut[k].val = [kind |-> "Initial"]

\* C14: a network call the Session Agent started stays alive until it
\* completes, whatever the consumers do with the AuthState values they were
\* sent (a view is torn down, a newer AuthState replaces the one that holds
\* the call's handle): no call is cancelled before its callback ran, so its
\* terminal AuthState can still be broadcast.
C14_CallStaysAlive ==
    \A c \in DOMAIN calls : calls[c].state # "aborted"

\* C15: a request handled while another call is in flight starts its own call
\* and leaves the other call in flight, so that both calls complete and both
\* terminal states are broadcast.
C15_BothCallsRun ==
    [][ (aLast'.op = "handle_input" /\ aLast'.started) =>
            /\ Len(calls') = Len(calls) + 1
            /\ \A c \in DOMAIN calls :
                  calls[c].state = "inflight" => calls'[c].state = "inflight" ]_allvars

SpecifiedPairs ==
    { <<"Initial", "Probing">>, <<"Probing", "LoggedIn">>, <<"Probing", "Initial">>,
      <<"LoggingIn", "LoggedIn">>, <<"LoggingIn", "Error">>,
      <<"LoggedIn", "LoggingOut">>, <<"LoggingOut", "Initial">>,
      <<"LoggingOut", "Error">>, <<"Error", "LoggingIn">>, <<"Error", "Probing">> }
    \cup { <<k, "Error">> : k \in {"Initial", "Probing", "LoggingIn", "LoggedIn",
                                   "LoggingOut", "Error"} }

\* C16 (as claimed): every two consecutive values the Session Agent
\* broadcasts are one of Initial->Probing, Probing->{LoggedIn, Initial},
\* LoggingIn->{LoggedIn, Error}, LoggedIn->LoggingOut, LoggingOut->{Initial,
\* Error}, any->Error, Error->{LoggingIn, Probing}.
C16_SpecifiedStateMachine ==
    prevB # "none" => <<prevB, lastB>> \in SpecifiedPairs

\* C16 (amended): the value a request broadcasts depends on the request only,
\* not on the value broadcast before: Probing for GetAuthStatus, LoggingIn for
\* Login and Signup, LoggingOut for Logout, Error when the call was not
\* started; the value a completion broadcasts is a terminal state of the
\* completed call's own machine: Probing->{LoggedIn, Initial},
\* LoggingIn->{LoggedIn, Error}, LoggingOut->{Initial, Error}.
C16_PerCallStateMachine ==
    /\ aLast.op = "handle_input" =>
          lastB = IF ~aLast.started THEN "Error"
                  ELSE CASE aLast.req = "GetAuthStatus" -> "Probing"
                         [] aLast.req \in {"Login", "Signup"} -> "LoggingIn"
                         [] aLast.req = "Logout" -> "LoggingOut"
    /\ (aLast.op = "update" /\ aLast.handled) =>
          lastB \in CASE aLast.fn = "probe_state" -> {"LoggedIn", "Initial"}
                      [] aLast.fn \in {"login", "signup"} -> {"LoggedIn", "Error"}
                      [] aLast.fn = "logout" -> {"Initial", "Error"}

\* LoggingOut was broadcast right after a value other than LoggedIn
C16_Witness ==
    /\ aLast.op = "handle_input" /\ aLast.req = "Logout" /\ aLast.started
    /\ lastB = "LoggingOut" /\ prevB \in {"Initial", "Error"}
    /\ aOut # <<>>

\* C17: a value is sent to handler ids that are connected only, so a consumer
\* that disconnected is sent nothing; the completion of a call whose agent
\* lost every consumer changes no subscriber set and sends nothing, and no
\* step of the Session Agent is a fault.
C17_NoDeliveryAfterDisconnect ==
    [][ /\ \A k \in 1..Len(aOut') : aOut'[k].to \in aBridges'
        /\ aLast'.op = "disconnected" =>
              /\ aLast'.id \notin aSubs'
              /\ aOut' = <<>>
        /\ aLast'.op = "update" =>
              /\ aSubs' = aSubs /\ aBridges' = aBridges
              /\ aBridges = {} => (aOut' = <<>> /\ ~aLast'.handled)
        /\ faulted' = faulted ]_allvars

\* a call has completed after one of two consumers disconnected, and the
\* outcome was sent to the other one only
C17_Witness ==
    /\ aLast.op = "update" /\ aLast.handled
    /\ aBridges = {DataBridge}
    /\ Len(aOut) = 1 /\ aOut[1].to = DataBridge

====
